---- MODULE Spec2Model ----
(***************************************************************************)
(* Model of Exercises/Exercise-1: FileController.process_files runs one    *)
(* process_file coroutine per name of FILE_NAMES.  Each coroutine enters   *)
(* the controller's semaphore, calls FileManager.download_file (wrapped by *)
(* tenacity's retry), leaves the semaphore, hands extract_zip to the       *)
(* manager's thread pool and reports one event to the LoggerView.          *)
(***************************************************************************)
EXTENDS Integers, Sequences, FiniteSets

\* ---- program constants --------------------------------------------------
\* len(FileController.FILE_NAMES)
NumFiles == 7
\* asyncio.Semaphore(5)
Capacity == 5
\* ThreadPoolExecutor(max_workers=5)
MaxWorkers == 5
\* stop_after_attempt(3)
StopAfterAttempt == 3
\* wait_exponential(multiplier=1, min=1, max=10)
WaitMultiplier == 1
WaitMin == 1
WaitMax == 10

\* ---- model bound ----------------------------------------------------------
\* Number of items of one run whose fetch attempts or extraction the
\* environment lets fail (each of them any number of times); the other items
\* meet no failure.
MaxFailing == 1

FILE_NAMES == 1..NumFiles

\* What one fetch attempt can meet: the status of the response, or the
\* aiohttp/asyncio exception raised while the request is made.
Responses ==
    {"200", "404", "500", "ClientConnectorError", "TimeoutError", "ServerDisconnectedError"}

\* How one run of extract_zip can end: "BadZipFile" is raised when the
\* archive is opened, "FileNotFoundError" by extractall while it unpacks.
ExtractResults == {"ok", "BadZipFile", "FileNotFoundError"}

VARIABLES
    mainpc,      \* process_files: "init", "gather", "finished", "raised"
    started,     \* 'Starting to process files' was logged
    finished,    \* 'Finished processing files' was logged
    pc,          \* per item: "new", "pending", "fetch", "backoff", "extract_wait",
                 \*           "extract", "done", "raised", "cancelled"
    semaphore,   \* FileController.semaphore: the items inside `async with`
    attempt,     \* tenacity attempt_number of the item's download_file call
    last_attempt, \* per item: tenacity's outcome of the current attempt: "none"
                 \*           until it ends, then "ok" or the exception raised
    fetched,     \* per item: what the current fetch attempt met: "none" until
                 \*           it ends, then the member of Responses
    slept,       \* per item: the backoff waits (seconds) started so far, in order
    archive,     \* per item: the file zip_path exists in download_dir
    extracted,   \* per item: "none", or how extract_zip ended
    event,       \* per item: the per-item message given to the LoggerView, or "none"
    nevents,     \* per item: number of per-item log_info/log_error calls
    queue,       \* work queue of FileManager.executor: items no worker took yet
    failing      \* items that met a failure so far

vars == <<mainpc, started, finished, pc, semaphore, attempt, last_attempt,
          fetched, slept, archive, extracted, event, nevents, queue, failing>>

\* ---- pure helpers ---------------------------------------------------------
Min(a, b) == IF a < b THEN a ELSE b
Max(a, b) == IF a > b THEN a ELSE b

\* Variant: no wait= argument (tenacity's default, wait_none).
wait_none(attempt_number) == 0

\* Variant: the exponent is the attempt number, not the attempt number - 1.
wait_exponential_late(attempt_number) ==
    Max(Max(0, WaitMin), Min(WaitMultiplier * 2 ^ attempt_number, WaitMax))

\* wait=wait_exponential(multiplier=1, min=1, max=10): the wait after the
\* attempt numbered attempt_number.
wait_exponential(attempt_number) ==
    Max(Max(0, WaitMin), Min(WaitMultiplier * 2 ^ (attempt_number - 1), WaitMax))

\* Variant: stop_after_attempt(2).
stop_after_two(attempt_number) == attempt_number >= 2

\* Variant: stop_after_attempt(4).
stop_after_four(attempt_number) == attempt_number >= 4

\* stop=stop_after_attempt(3)
stop_after_attempt(attempt_number) == attempt_number >= StopAfterAttempt

\* Variant: the status of the response is not looked at.
download_attempt_any_status(response) ==
    CASE response \in {"200", "404", "500"} -> "ok"
      [] response \in {"ClientConnectorError", "TimeoutError"} -> "ConnectionError"
      [] OTHER -> response

\* Variant: asyncio.TimeoutError is missing from the except clause.
download_attempt_timeout_uncaught(response) ==
    CASE response = "200" -> "ok"
      [] response = "404" -> "FileNotFoundError"
      [] response \in {"500", "ClientConnectorError"} -> "ConnectionError"
      [] OTHER -> response

\* The exception one fetch attempt of download_file ends with ("ok": it
\* returns zip_path).
download_attempt(response) ==
    CASE response = "200" -> "ok"
      [] response = "404" -> "FileNotFoundError"
      [] response \in {"500", "ClientConnectorError", "TimeoutError"} -> "ConnectionError"
      [] OTHER -> response

\* Variant: retry=retry_if_not_exception_type(FileNotFoundError).
retry_if_not_404(exc) == exc \notin {"ok", "FileNotFoundError"}

\* The retry decorator has no retry= argument: tenacity retries on every
\* exception an attempt raises.
retry_if(exc) == exc # "ok"

\* Variant: os.remove in a finally clause.
extract_zip_finally(result, exists) ==
    [exc |-> result, archive |-> FALSE]

\* extract_zip: the exception raised ("ok": none) and whether the archive
\* file exists afterwards.
extract_zip(result, exists) ==
    IF result = "ok"
    THEN [exc |-> "ok", archive |-> FALSE]
    ELSE [exc |-> result, archive |-> exists]

\* Variant: without the closing `except Exception` clause.
process_file_except_no_catch_all(exc, last) ==
    IF exc = "FileNotFoundError" THEN "not found on the server"
    ELSE IF exc = "RetryError"
         THEN IF last = "FileNotFoundError"
              THEN "not found after retries"
              ELSE "Unexpected retry error"
    ELSE IF exc = "ConnectionError" THEN "Connection error"
    ELSE "escape"

\* Variant: without the `except RetryError` and `except Exception` clauses.
process_file_except_no_retry_error(exc, last) ==
    IF exc = "FileNotFoundError" THEN "not found on the server"
    ELSE IF exc = "ConnectionError" THEN "Connection error"
    ELSE "escape"

\* Variant: the `except RetryError` clause does not look at last_attempt.
process_file_except_any_retry_error(exc, last) ==
    IF exc = "FileNotFoundError" THEN "not found on the server"
    ELSE IF exc = "RetryError" THEN "Unexpected retry error"
    ELSE IF exc = "ConnectionError" THEN "Connection error"
    ELSE "Unexpected error"

\* The except clauses of process_file, in order: the message logged for an
\* exception of type exc raised in the try block (last: the exception of
\* RetryError.last_attempt).  "escape": no clause matches.
process_file_except(exc, last) ==
    IF exc = "FileNotFoundError" THEN "not found on the server"
    ELSE IF exc = "RetryError"
         THEN IF last = "FileNotFoundError"
              THEN "not found after retries"
              ELSE "Unexpected retry error"
    ELSE IF exc = "ConnectionError" THEN "Connection error"
    ELSE "Unexpected error"

\* Variant: the semaphore is never awaited.
locked_never(sem) == FALSE

\* asyncio.Semaphore(5): the free slots, and locked() (no slot is free).
value(sem) == Capacity - Cardinality(sem)
locked(sem) == value(sem) <= 0

\* Variant: the slot is not given back.
aexit_leak(sem, i) == sem

\* Entering and leaving `async with self.semaphore` (entered only when not
\* locked; left on return and on exception alike).
aenter(sem, i) == sem \cup {i}
aexit(sem, i) == sem \ {i}

\* Variant: the semaphore is entered inside download_file, once per attempt,
\* and left before tenacity sleeps.
asleep_released(sem, i) == sem \ {i}

\* The semaphore while item i sleeps between two attempts: the retry loop
\* runs inside the `async with` block, which is not left.
asleep(sem, i) == sem

\* The environment may let item i fail.
may_fail(i) == i \in failing \/ Cardinality(failing) < MaxFailing

Init ==
    /\ mainpc = "init"
    /\ started = FALSE
    /\ finished = FALSE
    /\ pc = [i \in FILE_NAMES |-> "new"]
    /\ semaphore = {}
    /\ attempt = [i \in FILE_NAMES |-> 0]
    /\ last_attempt = [i \in FILE_NAMES |-> "none"]
    /\ fetched = [i \in FILE_NAMES |-> "none"]
    /\ slept = [i \in FILE_NAMES |-> <<>>]
    /\ archive = [i \in FILE_NAMES |-> FALSE]
    /\ extracted = [i \in FILE_NAMES |-> "none"]
    /\ event = [i \in FILE_NAMES |-> "none"]
    /\ nevents = [i \in FILE_NAMES |-> 0]
    /\ queue = <<>>
    /\ failing = {}

\* process_files up to its await of the gather: the start event, one task per
\* name.
process_files_start ==
    /\ mainpc = "init"
    /\ mainpc' = "gather"
    /\ started' = TRUE
    /\ pc' = [i \in FILE_NAMES |-> "pending"]
    /\ UNCHANGED <<finished, semaphore, attempt, last_attempt, fetched, slept,
                   archive, extracted, event, nevents, queue, failing>>

\* `async with self.semaphore`: the tasks reach the semaphore in the order of
\* FILE_NAMES and asyncio.Semaphore wakes its waiters first-in first-out.
acquire(i) ==
    /\ pc[i] = "pending"
    /\ ~locked(semaphore)
    /\ \A j \in FILE_NAMES : j < i => pc[j] # "pending"
    /\ semaphore' = aenter(semaphore, i)
    /\ pc' = [pc EXCEPT ![i] = "fetch"]
    /\ attempt' = [attempt EXCEPT ![i] = 1]
    /\ UNCHANGED <<mainpc, started, finished, last_attempt, fetched, slept, archive,
                   extracted, event, nevents, queue, failing>>

\* Variant: an executor without a limit of worker threads.
idle_worker_always(p) == TRUE

\* ThreadPoolExecutor(max_workers=5): a submitted call starts at once while
\* fewer than max_workers calls are running, and waits in the queue otherwise.
idle_worker(p) == Cardinality({j \in FILE_NAMES : p[j] = "extract"}) < MaxWorkers

\* One fetch attempt of download_file ends, and process_file runs on to its
\* next suspension point.
download_file(i, response) ==
    LET exc == download_attempt(response) IN
    /\ pc[i] = "fetch"
    /\ exc # "ok" => may_fail(i)
    /\ failing' = IF exc = "ok" THEN failing ELSE failing \cup {i}
    /\ IF exc = "ok"
       THEN \* zip_path returned: the semaphore is left, extract_zip is submitted
            /\ last_attempt' = [last_attempt EXCEPT ![i] = exc]
            /\ fetched' = [fetched EXCEPT ![i] = response]
            /\ archive' = [archive EXCEPT ![i] = TRUE]
            /\ semaphore' = aexit(semaphore, i)
            /\ IF idle_worker(pc)
               THEN /\ pc' = [pc EXCEPT ![i] = "extract"]
                    /\ UNCHANGED queue
               ELSE /\ pc' = [pc EXCEPT ![i] = "extract_wait"]
                    /\ queue' = Append(queue, i)
            /\ UNCHANGED <<attempt, slept, event, nevents>>
       ELSE IF retry_if(exc) /\ ~stop_after_attempt(attempt[i])
       THEN \* tenacity prepares the next attempt (the outcome is forgotten, the
            \* attempt number grows) and sleeps
            /\ slept' = [slept EXCEPT ![i] = Append(@, wait_exponential(attempt[i]))]
            /\ last_attempt' = [last_attempt EXCEPT ![i] = "none"]
            /\ fetched' = [fetched EXCEPT ![i] = "none"]
            /\ attempt' = [attempt EXCEPT ![i] = @ + 1]
            /\ pc' = [pc EXCEPT ![i] = "backoff"]
            /\ semaphore' = asleep(semaphore, i)
            /\ UNCHANGED <<archive, event, nevents, queue>>
       ELSE \* tenacity raises RetryError for an exception it retries, and the
            \* exception itself otherwise; the async with block is left and
            \* the exception handled
            LET raised == IF retry_if(exc) THEN "RetryError" ELSE exc
                msg == process_file_except(raised, exc)
            IN
            /\ last_attempt' = [last_attempt EXCEPT ![i] = exc]
            /\ fetched' = [fetched EXCEPT ![i] = response]
            /\ semaphore' = aexit(semaphore, i)
            /\ IF msg = "escape"
               THEN /\ pc' = [pc EXCEPT ![i] = "raised"]
                    /\ UNCHANGED <<event, nevents>>
               ELSE /\ pc' = [pc EXCEPT ![i] = "done"]
                    /\ event' = [event EXCEPT ![i] = msg]
                    /\ nevents' = [nevents EXCEPT ![i] = @ + 1]
            /\ UNCHANGED <<attempt, archive, slept, queue>>
    /\ UNCHANGED <<mainpc, started, finished, extracted>>

\* The backoff sleep ends: the next attempt starts.
retry(i) ==
    /\ pc[i] = "backoff"
    /\ pc' = [pc EXCEPT ![i] = "fetch"]
    /\ UNCHANGED <<mainpc, started, finished, semaphore, attempt, last_attempt, fetched, slept,
                   archive, extracted, event, nevents, queue, failing>>

\* extract_zip ends in its thread and process_file resumes after the await;
\* the worker thread takes the next call of the work queue, if any.
extract_done(i, result) ==
    LET r == extract_zip(result, archive[i])
        msg == IF r.exc = "ok" THEN "Processed" ELSE process_file_except(r.exc, "none")
    IN
    /\ pc[i] = "extract"
    /\ result # "ok" => may_fail(i)
    /\ failing' = IF result = "ok" THEN failing ELSE failing \cup {i}
    /\ extracted' = [extracted EXCEPT ![i] = r.exc]
    /\ archive' = [archive EXCEPT ![i] = r.archive]
    /\ LET next == IF queue = <<>> THEN pc ELSE [pc EXCEPT ![Head(queue)] = "extract"] IN
       IF msg = "escape"
       THEN /\ pc' = [next EXCEPT ![i] = "raised"]
            /\ UNCHANGED <<event, nevents>>
       ELSE /\ pc' = [next EXCEPT ![i] = "done"]
            /\ event' = [event EXCEPT ![i] = msg]
            /\ nevents' = [nevents EXCEPT ![i] = @ + 1]
    /\ queue' = IF queue = <<>> THEN queue ELSE Tail(queue)
    /\ UNCHANGED <<mainpc, started, finished, semaphore, attempt, last_attempt, fetched,
                   slept>>

\* Variant: asyncio.wait(tasks, return_when=FIRST_COMPLETED).
gather_first_completed(p) ==
    \E i \in FILE_NAMES : p[i] \in {"done", "raised"}

\* asyncio.gather(*tasks) is ready: every task returned, or one raised.
gather_ready(p) ==
    \/ \A i \in FILE_NAMES : p[i] = "done"
    \/ \E i \in FILE_NAMES : p[i] = "raised"

\* process_files after the gather.  An exception of a task is re-raised by
\* gather; it ends main(), and asyncio.run cancels the tasks still running.
process_files_end ==
    /\ mainpc = "gather"
    /\ gather_ready(pc)
    /\ IF \E i \in FILE_NAMES : pc[i] = "raised"
       THEN /\ mainpc' = "raised"
            /\ pc' = [i \in FILE_NAMES |->
                        IF pc[i] \in {"done", "raised"} THEN pc[i] ELSE "cancelled"]
            /\ UNCHANGED finished
       ELSE /\ mainpc' = "finished"
            /\ finished' = TRUE
            /\ UNCHANGED pc
    /\ UNCHANGED <<started, semaphore, attempt, last_attempt, fetched, slept,
                   archive, extracted, event, nevents, queue, failing>>

Next ==
    \/ process_files_start
    \/ \E i \in FILE_NAMES : acquire(i)
    \/ \E i \in FILE_NAMES, response \in Responses : download_file(i, response)
    \/ \E i \in FILE_NAMES : retry(i)
    \/ \E i \in FILE_NAMES, result \in ExtractResults : extract_done(i, result)
    \/ process_files_end

Spec == Init /\ [][Next]_vars

\* The event loop runs every task that can run, every sleep ends, and (as
\* assumed) every fetch attempt and every extraction ends.
Fairness ==
    /\ WF_vars(process_files_start)
    /\ WF_vars(process_files_end)
    /\ \A i \in FILE_NAMES :
        /\ WF_vars(acquire(i))
        /\ WF_vars(\E response \in Responses : download_file(i, response))
        /\ WF_vars(retry(i))
        /\ WF_vars(\E result \in ExtractResults : extract_done(i, result))

FairSpec == Spec /\ Fairness

\* ---- properties -----------------------------------------------------------
Terminal(i) == pc[i] = "done"
InDownload == {i \in FILE_NAMES : pc[i] \in {"fetch", "backoff"}}
ExtractFailed(i) == extracted[i] \notin {"none", "ok"}

\* C1: at every moment of a run of process_files at most 5 items are inside
\* download_file holding a slot of the semaphore, although 7 items are
\* processed.
C1_DownloadsBounded ==
    /\ Cardinality(InDownload) <= 5
    /\ Cardinality(semaphore) <= 5
    /\ InDownload \subseteq semaphore

C1_Witness ==
    /\ Cardinality(InDownload) = 5
    /\ \E i \in FILE_NAMES : pc[i] = "pending"
    /\ \E i \in FILE_NAMES : pc[i] = "backoff"

\* C2: process_file never raises, and an item that returned has emitted
\* exactly one per-item event (one 'Processed' or one log_error); no item
\* emits an event before it returns or a second one.
C2_ExactlyOneEvent ==
    \A i \in FILE_NAMES :
        /\ pc[i] # "raised"
        /\ nevents[i] <= 1
        /\ Terminal(i) <=> nevents[i] = 1
        /\ Terminal(i) <=> event[i] # "none"
        /\ event[i] = "Processed" <=> (Terminal(i) /\ extracted[i] = "ok")

C2_Witness ==
    \E i \in FILE_NAMES :
        /\ Terminal(i)
        /\ last_attempt[i] = "ok"
        /\ extracted[i] = "BadZipFile"
        /\ event[i] = "Unexpected error"
        /\ nevents[i] = 1

\* C3 (as claimed): an item whose fetch attempt met HTTP 404 has failed at
\* once: 1 attempt, no backoff wait, outcome NotFound.
C3_NotFoundNotRetried ==
    \A i \in FILE_NAMES :
        last_attempt[i] = "FileNotFoundError" =>
            /\ attempt[i] = 1
            /\ slept[i] = <<>>
            /\ Terminal(i)
            /\ event[i] = "not found on the server"

\* C4: 'Finished processing files' is emitted, and process_files returns,
\* only when every item is terminal and has emitted its event; every
\* per-item event comes after 'Starting to process files'.
C4_FinishedAfterAll ==
    /\ (finished \/ mainpc = "finished") =>
           \A i \in FILE_NAMES : Terminal(i) /\ nevents[i] = 1
    /\ (\E i \in FILE_NAMES : nevents[i] > 0 \/ pc[i] # "new") => started
    /\ finished <=> mainpc = "finished"

C4_Witness ==
    /\ finished
    /\ \E i \in FILE_NAMES : event[i] = "not found after retries"
    /\ \E i \in FILE_NAMES : event[i] = "Processed"

\* C5: no item is ever cancelled and the run never aborts; an item that met
\* no failure of its own ends 'Processed' whatever happened to the others,
\* and a terminal item's event is the one its own results call for.
C5_FailureIsolation ==
    /\ mainpc # "raised"
    /\ \A i \in FILE_NAMES :
        /\ pc[i] # "cancelled"
        /\ (Terminal(i) /\ i \notin failing) => event[i] = "Processed"
        /\ (Terminal(i) /\ last_attempt[i] = "ok" /\ extracted[i] = "ok")
               => event[i] = "Processed"
        /\ (Terminal(i) /\ last_attempt[i] \notin {"ok", "none"})
               => event[i] \in {"not found after retries", "Unexpected retry error"}

C5_Witness ==
    /\ mainpc = "finished"
    /\ \E i \in FILE_NAMES :
        /\ event[i] = "Unexpected retry error"
        /\ \A j \in FILE_NAMES \ {i} : event[j] = "Processed"

\* C6: an item holds a download slot only while it is in download_file; it
\* holds none while it waits for an extraction worker, extracts, or is
\* terminal.
C6_SlotOnlyWhileDownloading ==
    \A i \in FILE_NAMES :
        /\ i \in semaphore => pc[i] \in {"fetch", "backoff"}
        /\ pc[i] \in {"extract_wait", "extract", "done"} => i \notin semaphore

C6_Witness ==
    /\ \E i \in FILE_NAMES : pc[i] = "extract"
    /\ \E i \in FILE_NAMES : pc[i] = "extract_wait"
    /\ \E i \in FILE_NAMES : Terminal(i) /\ last_attempt[i] # "ok"
    /\ semaphore = {}

\* C7: a download whose last attempt ended with a connection failure gave up
\* at the third attempt, after two backoff waits, never earlier; the item
\* ends with the retries-exhausted event for a cause other than NotFound, the
\* cause kept being that ConnectionError.
C7_ExhaustedAfterThree ==
    \A i \in FILE_NAMES :
        /\ attempt[i] <= 3
        /\ last_attempt[i] = "ConnectionError" =>
               /\ attempt[i] = 3
               /\ Len(slept[i]) = 2
               /\ Terminal(i)
               /\ event[i] = "Unexpected retry error"

C7_Witness ==
    \E i \in FILE_NAMES :
        /\ Terminal(i)
        /\ attempt[i] = 3
        /\ last_attempt[i] = "ConnectionError"
        /\ event[i] = "Unexpected retry error"

\* C8: a download that succeeded at its second attempt made exactly 2
\* attempts with one backoff wait of at least 1s between them, and the item
\* ends 'Processed' when its extraction succeeds.
C8_SecondAttemptSucceeds ==
    \A i \in FILE_NAMES :
        (attempt[i] = 2 /\ last_attempt[i] = "ok") =>
            /\ Len(slept[i]) = 1
            /\ slept[i][1] >= 1
            /\ pc[i] \in {"extract_wait", "extract", "done"}
            /\ (Terminal(i) /\ extracted[i] = "ok") => event[i] = "Processed"

C8_Witness ==
    \E i \in FILE_NAMES :
        /\ attempt[i] = 2
        /\ last_attempt[i] = "ok"
        /\ slept[i] = <<1>>
        /\ event[i] = "Processed"

\* C9: after a failed extract_zip (open or unpack) the archive file still
\* exists; after a successful one it is removed.
C9_DeleteOnlyAfterUnpack ==
    \A i \in FILE_NAMES :
        /\ ExtractFailed(i) => archive[i]
        /\ extracted[i] = "ok" => ~archive[i]

C9_Witness ==
    /\ \E i \in FILE_NAMES : extracted[i] \in {"BadZipFile", "FileNotFoundError"} /\ archive[i]
    /\ \E i \in FILE_NAMES : extracted[i] = "ok" /\ ~archive[i]

\* C10 (as claimed): an item whose download succeeded and whose extraction
\* failed reports 'Unexpected error', whatever the extraction failure.
C10_ExtractionFailureUnexpected ==
    \A i \in FILE_NAMES :
        (last_attempt[i] = "ok" /\ ExtractFailed(i)) => event[i] = "Unexpected error"

\* C11: download_file makes at most 3 fetch attempts for an item, whatever
\* the attempts end with: no item is ever in a fetch attempt, or waiting for
\* one, numbered 4 or more, and at most 2 backoff waits are started.
C11_AtMostThreeAttempts ==
    \A i \in FILE_NAMES :
        /\ attempt[i] \in 0..3
        /\ pc[i] \in {"fetch", "backoff"} => attempt[i] \in 1..3
        /\ Len(slept[i]) <= 2
        /\ pc[i] = "backoff" => attempt[i] \in 2..3

C11_Witness ==
    \E i \in FILE_NAMES :
        /\ Terminal(i)
        /\ attempt[i] = 3
        /\ last_attempt[i] = "ServerDisconnectedError"
        /\ Len(slept[i]) = 2

\* C12: when the retries of an item are exhausted, the event is 'not found
\* after retries' exactly when the failure of the last attempt (the outcome
\* tenacity kept; the earlier ones were dropped before each backoff) is a
\* FileNotFoundError, and 'Unexpected retry error' for every other cause.
C12_ExhaustedByLastCause ==
    \A i \in FILE_NAMES :
        /\ event[i] = "not found after retries" <=>
               (Terminal(i) /\ last_attempt[i] = "FileNotFoundError")
        /\ event[i] = "Unexpected retry error" <=>
               (Terminal(i) /\ last_attempt[i] \in {"ConnectionError", "ServerDisconnectedError"})
        /\ pc[i] = "backoff" => last_attempt[i] = "none"

C12_Witness ==
    \E i \in FILE_NAMES :
        /\ Terminal(i)
        /\ attempt[i] = 3
        /\ fetched[i] = "404"
        /\ last_attempt[i] = "FileNotFoundError"
        /\ event[i] = "not found after retries"

\* The state of an item in the terms of the per-item state machine.
Phase(p, e) ==
    CASE p \in {"new", "pending"} -> "Pending"
      [] p \in {"fetch", "backoff"} -> "Downloading"
      [] p \in {"extract_wait", "extract"} -> "Extracting"
      [] p = "done" /\ e = "Processed" -> "Done"
      [] p = "done" /\ e # "Processed" -> "Failed"
      [] OTHER -> "Aborted"

PhaseSteps ==
    {<<"Pending", "Downloading">>, <<"Downloading", "Extracting">>,
     <<"Downloading", "Failed">>, <<"Extracting", "Done">>, <<"Extracting", "Failed">>}

\* C13: an item moves only Pending -> Downloading -> Extracting -> Done,
\* Downloading -> Failed or Extracting -> Failed; it extracts only after a
\* fetch attempt got the file, is Done only after extract_zip succeeded, and
\* a Done or Failed item never changes again.
C13_ItemStateMachine ==
    /\ [](\A i \in FILE_NAMES :
            /\ Phase(pc[i], event[i]) # "Aborted"
            /\ Phase(pc[i], event[i]) \in {"Extracting", "Done"} =>
                   (fetched[i] = "200" /\ last_attempt[i] = "ok")
            /\ Phase(pc[i], event[i]) = "Done" => extracted[i] = "ok"
            /\ Phase(pc[i], event[i]) \in {"Pending", "Downloading"} =>
                   extracted[i] = "none")
    /\ [][\A i \in FILE_NAMES :
            /\ \/ Phase(pc[i], event[i]) = Phase(pc'[i], event'[i])
               \/ <<Phase(pc[i], event[i]), Phase(pc'[i], event'[i])>> \in PhaseSteps
            /\ Terminal(i) =>
                   /\ pc'[i] = pc[i]
                   /\ event'[i] = event[i]
                   /\ nevents'[i] = nevents[i]
                   /\ attempt'[i] = attempt[i]
                   /\ extracted'[i] = extracted[i]]_vars

C13_Witness ==
    /\ \E i \in FILE_NAMES :
        /\ Phase(pc[i], event[i]) = "Failed"
        /\ extracted[i] = "BadZipFile"
        /\ attempt[i] = 2
    /\ \E i \in FILE_NAMES : Phase(pc[i], event[i]) = "Done"
    /\ \E i \in FILE_NAMES : Phase(pc[i], event[i]) = "Downloading"

Extracting == {i \in FILE_NAMES : pc[i] = "extract"}
Queued == {i \in FILE_NAMES : pc[i] = "extract_wait"}

\* C14: at most 5 extract_zip calls run at any moment, a call waits in the
\* queue only while 5 run, and the free download slots are 5 minus the items
\* in download_file: items that extract or wait for a worker take none.
C14_IndependentCapacities ==
    /\ Cardinality(Extracting) <= 5
    /\ Queued # {} => Cardinality(Extracting) = 5
    /\ Queued = {queue[k] : k \in 1..Len(queue)}
    /\ Cardinality(Queued) = Len(queue)
    /\ value(semaphore) = 5 - Cardinality(InDownload)
    /\ (Extracting \cup Queued) \cap semaphore = {}

C14_Witness ==
    /\ Cardinality(Extracting) = 5
    /\ Queued # {}
    /\ \E i \in FILE_NAMES : pc[i] = "fetch" /\ attempt[i] = 1
    /\ value(semaphore) = 4

\* C15: a fetch attempt that met a non-404 error status, a failure to connect
\* or a timeout ended with ConnectionError, and the download gave up on it
\* only at the third attempt, after two waits; an attempt that met 404 ended
\* with FileNotFoundError; only an attempt that met 200 returned the file.
C15_AttemptClassification ==
    \A i \in FILE_NAMES :
        /\ fetched[i] \in {"500", "ClientConnectorError", "TimeoutError"} =>
               /\ last_attempt[i] = "ConnectionError"
               /\ attempt[i] = 3
               /\ slept[i] = <<1, 2>>
        /\ fetched[i] = "404" => last_attempt[i] = "FileNotFoundError"
        /\ fetched[i] = "200" <=> last_attempt[i] = "ok"
        /\ fetched[i] = "none" <=> last_attempt[i] = "none"

C15_Witness ==
    \E i \in FILE_NAMES :
        /\ fetched[i] = "TimeoutError"
        /\ last_attempt[i] = "ConnectionError"
        /\ attempt[i] = 3
        /\ Terminal(i)

\* C16: the k-th backoff wait of an item, the one between its attempts k and
\* k+1, lasts min(10, 2^(k-1)) seconds: 1s, then 2s, never under 1s nor over
\* 10s; one wait was started before each attempt after the first.  The
\* schedule of the decorator gives 1, 2, 4, 8 and then 10 seconds.
C16_BackoffSchedule ==
    /\ \A i \in FILE_NAMES :
        /\ \A k \in 1..Len(slept[i]) :
               /\ slept[i][k] = (IF 2 ^ (k - 1) < 10 THEN 2 ^ (k - 1) ELSE 10)
               /\ slept[i][k] >= 1
               /\ slept[i][k] <= 10
        /\ attempt[i] >= 1 => Len(slept[i]) = attempt[i] - 1
        /\ attempt[i] = 0 => slept[i] = <<>>
    /\ \A k \in 1..8 : wait_exponential(k) = <<1, 2, 4, 8, 10, 10, 10, 10>>[k]

C16_Witness ==
    \E i \in FILE_NAMES :
        /\ slept[i] = <<1, 2>>
        /\ pc[i] = "backoff"
        /\ attempt[i] = 3

\* C17: under fair scheduling every item becomes terminal and process_files
\* returns; an item waiting for a slot gets one; a terminal item holds no
\* slot, whether its download returned or raised, so all 5 slots are free
\* when the run has ended.
C17_TerminatesSlotsFreed ==
    /\ <>(mainpc = "finished" /\ \A i \in FILE_NAMES : Terminal(i))
    /\ (\E i \in FILE_NAMES : pc[i] = "pending" /\ locked(semaphore))
           ~> (\A i \in FILE_NAMES : pc[i] \notin {"new", "pending"})
    /\ [](\A i \in FILE_NAMES : Terminal(i) => i \notin semaphore)
    /\ [](mainpc = "finished" => value(semaphore) = 5)

C17_Witness ==
    /\ mainpc = "finished"
    /\ value(semaphore) = 5
    /\ \E i \in FILE_NAMES : fetched[i] = "500" /\ Terminal(i)
    /\ \E i \in FILE_NAMES : fetched[i] = "200" /\ Terminal(i)

\* C18: an item holds its slot through all its fetch attempts and the
\* backoff waits between them: an item that sleeps in backoff, or makes a
\* second or third attempt, is among the 5 holders, so that a pending item
\* stays locked out while 5 items are downloading or sleeping.
C18_SlotHeldAcrossRetries ==
    /\ \A i \in FILE_NAMES :
        /\ pc[i] = "backoff" => i \in semaphore
        /\ (pc[i] = "fetch" /\ attempt[i] >= 2) => i \in semaphore
    /\ Cardinality(InDownload) = 5 => locked(semaphore)
    /\ (\E i \in FILE_NAMES : pc[i] = "pending") =>
           \/ Cardinality(InDownload) = 5
           \/ ~locked(semaphore)

C18_Witness ==
    \E i, j \in FILE_NAMES :
        /\ pc[i] = "backoff"
        /\ slept[i] = <<1, 2>>
        /\ pc[j] = "pending"
        /\ locked(semaphore)

\* C19: a failed download reaches process_file only as RetryError, after the
\* third attempt: its event is 'not found after retries' or 'Unexpected
\* retry error'.  'not found on the server' is logged only for a
\* FileNotFoundError of the extraction, and 'Connection error' never.
C19_DownloadFailsAsRetryError ==
    \A i \in FILE_NAMES :
        /\ last_attempt[i] \notin {"ok", "none"} =>
               /\ Terminal(i)
               /\ attempt[i] = 3
               /\ extracted[i] = "none"
               /\ event[i] \in {"not found after retries", "Unexpected retry error"}
        /\ event[i] = "not found on the server" =>
               (last_attempt[i] = "ok" /\ extracted[i] = "FileNotFoundError")
        /\ event[i] # "Connection error"

C19_Witness ==
    \E i \in FILE_NAMES :
        /\ Terminal(i)
        /\ fetched[i] = "ClientConnectorError"
        /\ last_attempt[i] = "ConnectionError"
        /\ event[i] = "Unexpected retry error"
        /\ extracted[i] = "none"
====
